---- MODULE Spec2Model ----
(***************************************************************************)
(* Photo_Restoration: the orchestration around the external restoration    *)
(* engine.  restore_photos (photo_restoration_runner.py) checks the setup, *)
(* clears the output directory and runs the engine; process_single_image   *)
(* and process_multiple_images (gradio_app.py) stage the inputs, call      *)
(* restore_photos once and look for the results in the output directory.   *)
(*                                                                         *)
(* The file system is modelled as the directories the program reads and    *)
(* writes: each location an output_folder argument can resolve to, with    *)
(* the candidate subdirectories of the resolver and their listings.        *)
(***************************************************************************)
EXTENDS Integers, Sequences, FiniteSets, TLC

VARIABLES
    job,            \* "none", "single", "batch" or "cli": who called
    pc,             \* position in the code of the running job
    env,            \* the installation: photo_restoration/ and what it holds
    opts,           \* the UI inputs use_gpu, with_scratch, high_resolution
    image,          \* process_single_image's image argument
    files,          \* process_multiple_images' files argument
    rpArgs,         \* the arguments of the running restore_photos call
    cmd,            \* the engine command line as built by restore_photos
    fs,             \* output locations -> directory -> listing
    inputDir,       \* names staged in the job's input directory
    callNo,         \* number of restore_photos calls made so far
    engineStarts,   \* engine commands started by the current job
    nWrites,        \* file-system writes of the running engine process
    success,        \* what restore_photos returned
    probes,         \* output paths read after restore_photos has returned
    k,              \* the resolver's position in possible_output_dirs
    test_path,      \* the resolver's local test_path
    restored_path,  \* the resolver's local restored_path
    i,              \* the batch loop's index (0-based, as enumerate)
    results,        \* what the job returned
    proc,           \* run_command's result: the engine's exit status and stderr
    printed,        \* the error texts run_command printed for the running call
    looked,         \* the names the batch loop looked up in final_output
    walk,           \* which walk over possible_output_dirs is under way
    first_path,     \* the restored_path of the first walk
    mg,             \* the frame of a make_grid call
    dl,             \* the downloads directory, the clock, the jobs saving
    tmp,            \* the temporary directories and the UI jobs inside them
    vis             \* the frame of a visualize_results call

vars == <<job, pc, env, opts, image, files, rpArgs, cmd, fs, inputDir, callNo,
          engineStarts, nWrites, success, probes, k, test_path, restored_path,
          i, results, proc, printed, looked, walk, first_path, mg, dl, tmp, vis>>

(***************************************************************************)
(* Bounds of the model.                                                    *)
(***************************************************************************)
\* entries (directories or files) one engine run creates
MaxWrites == 2
\* uploaded files in one batch
MaxBatch == 2
\* restore_photos calls in one command-line session
MaxCalls == 2
\* the height of an original handed to make_grid
MaxH == 11
\* the seconds the clock runs through
MaxSec == 2
\* the files an input folder holds at most
MaxFolder == 3

(***************************************************************************)
(* Values.                                                                 *)
(***************************************************************************)
None == [none |-> TRUE]

\* A file name, split at its last dot.
FileName(stem, ext) == [stem |-> stem, ext |-> ext]

\* gradio_app.py:246 and :310, the name the single image is saved under
UploadedImage == FileName(<<"uploaded_image">>, ".jpg")

\* gradio_app.py:386 and :414, f"image_{i}{ext}"
StagedName(n, ext) == FileName(<<"image_" \o ToString(n)>>, ext)

\* Path(file_path).suffix
Suffix(file_path) == file_path.ext

\* str.lower() as far as a name's ending goes
Lower(ext) ==
    CASE ext = ".JPG" -> ".jpg"
      [] ext = ".PNG" -> ".png"
      [] ext = ".BMP" -> ".bmp"
      [] OTHER -> ext

\* the files a user can upload in a batch
Uploads == {FileName(<<"a">>, ".jpg"), FileName(<<"a">>, ".png")}

\* the image object gradio hands to process_single_image
Img == [img |-> "upload"]

(***************************************************************************)
(* Paths.  A path argument is absolute or relative; a process resolves a   *)
(* relative one against its own working directory.                         *)
(***************************************************************************)
Path(abs, parts) == [abs |-> abs, parts |-> parts]

\* the working directory of the Python process
PyCwd == <<"cwd">>

\* photo_restoration_runner.py:66, relative to the Python process
photo_restoration_dir == Path(FALSE, <<"photo_restoration">>)

Resolve(cwd, p) == IF p.abs THEN p.parts ELSE cwd \o p.parts

\* run_command(cmd, cwd=photo_restoration_dir): the engine's working directory
EngineCwd == Resolve(PyCwd, photo_restoration_dir)

\* tempfile.TemporaryDirectory() gives an absolute path
TempOutput == Path(TRUE, <<"tmp", "job", "output">>)
TempInput == Path(TRUE, <<"tmp", "job", "input">>)

\* output_folder arguments of the command-line callers: "output" in main(),
\* whatever the user types in run_restoration.py
CliOutputs == {Path(FALSE, <<"output">>), Path(TRUE, <<"srv", "output">>)}
CliInput == Path(FALSE, <<"test_images", "old">>)

\* run_restoration.py:21, the input folders a user types: a folder of its
\* own, a folder below the output folder, the output folder itself
TypedInputs == {Path(FALSE, <<"photos">>),
                Path(FALSE, <<"output", "photos">>),
                Path(FALSE, <<"output">>)}

\* directory inp is directory out or lies below it
Inside(inp, out) ==
    /\ Len(out) <= Len(inp)
    /\ SubSeq(inp, 1, Len(out)) = out

Locations ==
    {Resolve(c, p) : c \in {PyCwd, EngineCwd}, p \in CliOutputs \cup {TempOutput}}

(***************************************************************************)
(* Directories below an output location.  "." is the location itself.      *)
(***************************************************************************)
Dirs == {".", "final_output", "restored_image",
         "stage_1_restore_output/restored_image",
         "stage_1_restore_output/origin",
         "stage_3_face_output/each_img"}

Absent == [exists |-> FALSE, entries |-> <<>>]
EmptyDir == [exists |-> TRUE, entries |-> <<>>]

\* a location where nothing exists
NoTree == [d \in Dirs |-> Absent]
\* a location that is an empty directory
EmptyTree == [d \in Dirs |-> IF d = "." THEN EmptyDir ELSE Absent]

\* an entry of a listing: the file's name and the call whose engine wrote it
Entry(name, run) == [name |-> name, run |-> run]

Names(dir) == {dir.entries[n].name : n \in 1..Len(dir.entries)}

\* os.path.exists / os.path.isdir of a directory below loc
os_path_exists(tree, d) == tree[d].exists

\* os.path.exists(os.path.join(d, name))
os_path_exists_file(tree, d, name) == tree[d].exists /\ name \in Names(tree[d])

\* os.listdir(d), without the subdirectories of d: they carry no image
\* extension and are never named like an input
os_listdir(tree, d) == [n \in 1..Len(tree[d].entries) |-> tree[d].entries[n].name]

\* a directory created with its parents
MkDir(tree, d) ==
    [x \in Dirs |-> IF x \in {d, "."} /\ ~tree[x].exists THEN EmptyDir ELSE tree[x]]

\* shutil.rmtree(output_folder): the directory and all below it are gone
rmtree(tree) == NoTree

\* os.makedirs(output_folder), reached only when the directory does not exist
makedirs(tree) == MkDir(tree, ".")

\* the preparation without the removal: os.makedirs(..., exist_ok=True)
PrepareOutput_KeepOld(tree) == MkDir(tree, ".")

\* photo_restoration_runner.py:79-81
PrepareOutput(tree) ==
    makedirs(IF os_path_exists(tree, ".") THEN rmtree(tree) ELSE tree)

(***************************************************************************)
(* The installation.                                                       *)
(***************************************************************************)
\* gradio_app.py:23-24, the checkpoint directories the engine loads its
\* models from
RequiredCheckpoints == {"Face_Enhancement/checkpoints", "Global/checkpoints"}

\* photo_restoration/ is there or not; when it is, run.py and each checkpoint
\* directory below it is there or not
EnvStates ==
    {[dir |-> FALSE, run_py |-> FALSE, checkpoints |-> {}]} \cup
    {[dir |-> TRUE, run_py |-> r, checkpoints |-> c] :
        r \in BOOLEAN, c \in SUBSET RequiredCheckpoints}

\* the installation a session starts with: nothing of it, a checkout without
\* run.py, or the whole of it
InstalledStates == {e \in EnvStates : e.dir => e.checkpoints = RequiredCheckpoints}

\* photo_restoration_runner.py:65-76, the two checks that return False
SetupMissing(e) == ~e.dir \/ ~e.run_py

(***************************************************************************)
(* run_command's result, photo_restoration_runner.py:22-26                 *)
(***************************************************************************)
\* run_command that does not look at the exit status
run_command_Unchecked(check, returncode) == TRUE

run_command(check, returncode) ==
    IF check /\ returncode # 0 THEN FALSE ELSE TRUE

\* a text the engine left on its standard error
Text(s) == [text |-> s]

\* what the engine can have written to stderr when it exits with returncode
StderrTexts(returncode) ==
    IF returncode = 0 THEN {Text("")}
    ELSE {Text("Traceback"), Text("CUDA out of memory")}

\* subprocess.run(..., capture_output=True, text=True), :21
CompletedProcess(returncode, stderr) ==
    [returncode |-> returncode, stderr |-> stderr]

\* :22-25, what run_command prints of the captured error text
run_command_prints(check, result) ==
    IF check /\ result.returncode # 0 THEN <<result.stderr>> ELSE <<>>

\* the words of a command line: an option, a path, a number
Flag(s) == [flag |-> s]
PathArg(p) == [path |-> p]
IntArg(n) == [int |-> n]

\* the command with --HR tied to with_scratch
BuildCmd_HRWithScratch(a) ==
    [cwd |-> EngineCwd,
     argv |-> <<Flag("python"), Flag("run.py"),
                Flag("--input_folder"), PathArg(a.input_folder),
                Flag("--output_folder"), PathArg(a.output_folder),
                Flag("--GPU"), IntArg(a.gpu_id)>>
              \o (IF a.with_scratch THEN <<Flag("--with_scratch"), Flag("--HR")>>
                  ELSE <<>>)]

\* photo_restoration_runner.py:84-90 and :96, the command as the words the
\* shell splits it into (no path of the model holds a blank), and the
\* directory it is run from
BuildCmd(a) ==
    [cwd |-> EngineCwd,
     argv |-> <<Flag("python"), Flag("run.py"),
                Flag("--input_folder"), PathArg(a.input_folder),
                Flag("--output_folder"), PathArg(a.output_folder),
                Flag("--GPU"), IntArg(a.gpu_id)>>
              \o (IF a.with_scratch THEN <<Flag("--with_scratch")>> ELSE <<>>)
              \o (IF a.hr THEN <<Flag("--HR")>> ELSE <<>>)]

\* the command line carries the option
HasFlag(argv, f) == \E n \in 1..Len(argv) : argv[n] = Flag(f)

\* the word after the option, as the engine's argument parser reads it
OptionValue(argv, f) ==
    argv[(CHOOSE n \in 1..Len(argv) - 1 : argv[n] = Flag(f)) + 1]

\* gradio_app.py:254 and :391
GpuId(use_gpu) == IF use_gpu THEN 0 ELSE -1

\* the directory restore_photos clears and its callers read
CallerLoc == Resolve(PyCwd, rpArgs.output_folder)

\* the directory the engine process writes to
EngineLoc == Resolve(cmd.cwd, OptionValue(cmd.argv, "--output_folder").path)

\* the frame of a make_grid call: its arguments, its locals I_combine and
\* the size it asks for, what it returns or raises; here no call is under way
NoFrame ==
    [pc |-> "idle", I1 |-> None, I2 |-> None, resize |-> FALSE,
     I_combine |-> None, size |-> None, result |-> None, error |-> None]

\* os.path.join(output_subdir, file)
Join(d, name) == [dir |-> d, name |-> name]

(***************************************************************************)
(* The download file of process_single_image, gradio_app.py:328-346.  The  *)
(* directory "downloads" is one for all jobs of the process; a job is      *)
(* known by its number, and so is the image it saves.                      *)
(***************************************************************************)
UiJobs == {1, 2}

\* datetime.datetime.now(): a second and whether its first half is over
Instants == [sec : 0..MaxSec, late : BOOLEAN]

\* :337, strftime("%Y%m%d_%H%M%S") keeps the whole second and nothing below
strftime(now) == ToString(now.sec)

\* :338-339
download_path(timestamp) ==
    Join("downloads", "restored_photo_" \o timestamp \o ".jpg")

DownloadPaths == {download_path(strftime(t)) : t \in Instants}

\* the job's frame: where it stands, its local timestamp, what it returned
NoDownload == [pc |-> "idle", timestamp |-> None, download_path |-> None]

\* the clock at its start, no file in downloads, no job at :328
NoDownloads ==
    [now |-> [sec |-> 0, late |-> FALSE],
     saved |-> [q \in DownloadPaths |-> None],
     frame |-> [j \in UiJobs |-> NoDownload]]

(***************************************************************************)
(* Two UI jobs, each inside its own `with tempfile.TemporaryDirectory()`,  *)
(* gradio_app.py:237-243 and :374-380.  A file is known by the job that    *)
(* wrote it and its name.                                                  *)
(***************************************************************************)
\* the directories mkdtemp can draw
TempDir(name) == [tmp |-> name]
TempNames == {TempDir("tmpa"), TempDir("tmpb"), TempDir("tmpc")}

\* the names the engine writes under
EngineNames == {"final_output/out", "out"}

TempFile(j, name) == [owner |-> j, name |-> name]

\* a temporary directory that is not there, and one with its input and
\* output subdirectories made and empty
NoTempDir == [exists |-> FALSE, input |-> {}, output |-> {}]
NewTempDir == [exists |-> TRUE, input |-> {}, output |-> {}]

NoJob == [pc |-> "idle", temp_dir |-> None, staged |-> FALSE, outputs |-> {}]

NoTemp ==
    [tree |-> [d \in TempNames |-> NoTempDir],
     frame |-> [j \in UiJobs |-> NoJob]]

(***************************************************************************)
(* visualize_results, photo_restoration_runner.py:106-140.                 *)
(***************************************************************************)
\* the entries an input folder can hold, as Path comparison orders them
\* (by code point: upper case before lower case)
NameOrder ==
    <<FileName(<<"B">>, ".JPG"),
      FileName(<<"a">>, ".jpg"),
      FileName(<<"b">>, ".tiff"),
      FileName(<<"c">>, ".txt"),
      FileName(<<"d">>, ".png")>>

FolderNames == {NameOrder[n] : n \in 1..Len(NameOrder)}

\* d.png is a directory, the others are files
is_file(f) == f # FileName(<<"d">>, ".png")

\* Path.__lt__
Rank(f) == CHOOSE n \in 1..Len(NameOrder) : NameOrder[n] = f
Before(f, g) == Rank(f) < Rank(g)

\* :116
image_extensions == {".jpg", ".jpeg", ".png", ".bmp", ".tiff"}

\* the orders iterdir can yield a folder's entries in
Folders ==
    {s \in UNION {[1..n -> FolderNames] : n \in 0..MaxFolder} :
        \A p, q \in 1..Len(s) : p # q => s[p] # s[q]}

NoVisual ==
    [pc |-> "idle", input |-> <<>>, final_output |-> None, filenames |-> <<>>,
     n |-> 0, handled |-> <<>>, written |-> <<>>, errors |-> <<>>]

Init ==
    /\ job = "none"
    /\ pc = "idle"
    /\ env \in InstalledStates
    /\ opts = None
    /\ image = None
    /\ files = <<>>
    /\ rpArgs = None
    /\ cmd = None
    /\ fs = [l \in Locations |-> NoTree]
    /\ inputDir = {}
    /\ callNo = 0
    /\ engineStarts = 0
    /\ nWrites = 0
    /\ success = FALSE
    /\ probes = {}
    /\ k = 0
    /\ test_path = None
    /\ restored_path = None
    /\ i = 0
    /\ results = <<>>
    /\ proc = None
    /\ printed = <<>>
    /\ looked = <<>>
    /\ walk = 1
    /\ first_path = None
    /\ mg = NoFrame
    /\ dl = NoDownloads
    /\ tmp = NoTemp
    /\ vis = NoVisual

(***************************************************************************)
(* restore_photos, photo_restoration_runner.py:53-104                      *)
(***************************************************************************)
\* restore_photos preparing the output directory before it checks the setup
RP_Check_ClearsFirst ==
    /\ pc = "rp_check"
    /\ fs' = [fs EXCEPT ![CallerLoc] = PrepareOutput(@)]
    /\ IF SetupMissing(env)
          THEN /\ success' = FALSE
               /\ pc' = "rp_ret"
          ELSE /\ pc' = "rp_prepare"
               /\ UNCHANGED success
    /\ UNCHANGED <<job, env, opts, image, files, rpArgs, cmd, inputDir,
                   callNo, engineStarts, nWrites, probes, k, test_path,
                   restored_path, i, results>>
    /\ UNCHANGED <<proc, printed, looked, walk, first_path, mg, dl, tmp, vis>>

\* :65-76
RP_Check ==
    /\ pc = "rp_check"
    /\ IF SetupMissing(env)
          THEN /\ success' = FALSE
               /\ pc' = "rp_ret"
          ELSE /\ pc' = "rp_prepare"
               /\ UNCHANGED success
    /\ UNCHANGED <<job, env, opts, image, files, rpArgs, cmd, fs, inputDir,
                   callNo, engineStarts, nWrites, probes, k, test_path,
                   restored_path, i, results>>
    /\ UNCHANGED <<proc, printed, looked, walk, first_path, mg, dl, tmp, vis>>

\* :78-81
RP_Prepare ==
    /\ pc = "rp_prepare"
    /\ fs' = [fs EXCEPT ![CallerLoc] = PrepareOutput(@)]
    /\ inputDir' = IF Inside(Resolve(PyCwd, rpArgs.input_folder), CallerLoc)
                      THEN {}
                      ELSE inputDir
    /\ pc' = "rp_run"
    /\ UNCHANGED <<job, env, opts, image, files, rpArgs, cmd, callNo,
                   engineStarts, nWrites, success, probes, k, test_path,
                   restored_path, i, results>>
    /\ UNCHANGED <<proc, printed, looked, walk, first_path, mg, dl, tmp, vis>>

\* :83-96 and run_command :20-21: the command is built and the engine started
RP_Run ==
    /\ pc = "rp_run"
    /\ cmd' = BuildCmd(rpArgs)
    /\ engineStarts' = engineStarts + 1
    /\ nWrites' = 0
    /\ proc' = None
    /\ printed' = <<>>
    /\ pc' = "engine"
    /\ UNCHANGED <<job, env, opts, image, files, rpArgs, fs, inputDir, callNo,
                   success, probes, k, test_path, restored_path, i, results>>
    /\ UNCHANGED <<looked, walk, first_path, mg, dl, tmp, vis>>

(***************************************************************************)
(* The engine process (run.py), an external program: while it runs it      *)
(* creates directories and files below its --output_folder, which it       *)
(* resolves from its own working directory, and it exits with a status.    *)
(* Only what a job can observe is tracked: the batch and command-line      *)
(* callers read final_output alone, the single-image job every candidate.  *)
(***************************************************************************)
EngineDirs == IF job = "single" THEN Dirs ELSE {".", "final_output"}

\* endings the engine may give a result instead of the input's own
EngineExts == IF job = "single" THEN {".PNG", ".bmp", ".tiff"} ELSE {}

EnginePool ==
    {FileName(n.stem, e) : n \in inputDir, e \in EngineExts} \cup inputDir

\* a file created in d, replacing a file of that name
WriteFile(tree, d, name, run) ==
    LET t == MkDir(tree, d)
        keep == SelectSeq(t[d].entries, LAMBDA e : e.name # name)
    IN  [t EXCEPT ![d] = [exists |-> TRUE,
                          entries |-> Append(keep, Entry(name, run))]]

EngineMkdir(d) ==
    /\ pc = "engine"
    /\ nWrites < MaxWrites
    /\ ~fs[EngineLoc][d].exists
    /\ fs' = [fs EXCEPT ![EngineLoc] = MkDir(@, d)]
    /\ nWrites' = nWrites + 1
    /\ UNCHANGED <<job, pc, env, opts, image, files, rpArgs, cmd, inputDir,
                   callNo, engineStarts, success, probes, k, test_path,
                   restored_path, i, results>>
    /\ UNCHANGED <<proc, printed, looked, walk, first_path, mg, dl, tmp, vis>>

EngineWrite(d, name) ==
    /\ pc = "engine"
    /\ nWrites < MaxWrites
    /\ Entry(name, callNo) \notin
           {fs[EngineLoc][d].entries[n] : n \in 1..Len(fs[EngineLoc][d].entries)}
    /\ fs' = [fs EXCEPT ![EngineLoc] = WriteFile(@, d, name, callNo)]
    /\ nWrites' = nWrites + 1
    /\ UNCHANGED <<job, pc, env, opts, image, files, rpArgs, cmd, inputDir,
                   callNo, engineStarts, success, probes, k, test_path,
                   restored_path, i, results>>
    /\ UNCHANGED <<proc, printed, looked, walk, first_path, mg, dl, tmp, vis>>

\* run_command with a second attempt after a failed one
EngineExit_Retry(returncode) ==
    /\ pc = "engine"
    /\ \E stderr \in StderrTexts(returncode) :
         /\ proc' = CompletedProcess(returncode, stderr)
         /\ printed' = run_command_prints(TRUE, proc')
    /\ success' = run_command(TRUE, returncode)
    /\ pc' = IF success' THEN "rp_ret" ELSE "rp_run"
    /\ UNCHANGED <<job, env, opts, image, files, rpArgs, cmd, fs, inputDir,
                   callNo, engineStarts, nWrites, probes, k, test_path,
                   restored_path, i, results>>
    /\ UNCHANGED <<looked, walk, first_path, mg, dl, tmp, vis>>

\* run_command :21-26, subprocess.run returns when the engine has exited:
\* the error text is printed, the boolean returned
EngineExit(returncode) ==
    /\ pc = "engine"
    /\ \E stderr \in StderrTexts(returncode) :
         /\ proc' = CompletedProcess(returncode, stderr)
         /\ printed' = run_command_prints(TRUE, proc')
    /\ success' = run_command(TRUE, returncode)
    /\ pc' = "rp_ret"
    /\ UNCHANGED <<job, env, opts, image, files, rpArgs, cmd, fs, inputDir,
                   callNo, engineStarts, nWrites, probes, k, test_path,
                   restored_path, i, results>>
    /\ UNCHANGED <<looked, walk, first_path, mg, dl, tmp, vis>>

\* restore_photos returns to the job that called it (:70, :76, :104)
RP_Return ==
    /\ pc = "rp_ret"
    /\ pc' = CASE job = "single" -> "s_diag"
               [] job = "batch" -> "b_check"
               [] OTHER -> "cli_ret"
    /\ UNCHANGED <<job, env, opts, image, files, rpArgs, cmd, fs, inputDir,
                   callNo, engineStarts, nWrites, success, probes, k,
                   test_path, restored_path, i, results>>
    /\ UNCHANGED <<proc, printed, looked, walk, first_path, mg, dl, tmp, vis>>

(***************************************************************************)
(* process_single_image, gradio_app.py:221-354                             *)
(***************************************************************************)
\* a returned tuple
Triple(a, b, c) == <<a, b, c>>
NoResult == Triple(None, None, None)

\* Image.open(path)
Opened(path) == [opened |-> path]

\* the candidates with the output root moved to the end
possible_output_dirs_RootLast ==
    <<"final_output",
      "restored_image",
      "stage_1_restore_output/restored_image",
      "stage_1_restore_output/origin",
      "stage_3_face_output/each_img",
      ".">>

\* :291-298
possible_output_dirs ==
    <<"final_output",
      ".",
      "restored_image",
      "stage_1_restore_output/restored_image",
      "stage_1_restore_output/origin",
      "stage_3_face_output/each_img">>

\* :275
stage_dirs == {"stage_1_restore_output", "stage_2_detection_output",
               "stage_3_face_output", "final_output"}

\* :319, file.lower().endswith(('.jpg', '.jpeg', '.png', '.bmp'))
IsImageFile(file) == Lower(file.ext) \in {".jpg", ".jpeg", ".png", ".bmp"}

\* the inner loop without its break: the last image file wins
RECURSIVE ScanContents_NoBreak(_, _)
ScanContents_NoBreak(contents, n) ==
    IF n > Len(contents) THEN 0
    ELSE LET later == ScanContents_NoBreak(contents, n + 1)
         IN  IF later # 0 THEN later
             ELSE IF IsImageFile(contents[n]) THEN n ELSE 0

\* :318-324, the position of the file the inner loop stops at, 0 if it runs out
RECURSIVE ScanContents(_, _)
ScanContents(contents, n) ==
    IF n > Len(contents) THEN 0
    ELSE IF IsImageFile(contents[n]) THEN n
    ELSE ScanContents(contents, n + 1)

\* :304-324, one round of the loop over possible_output_dirs: the path the
\* round leaves in test_path, and whether it opens it
CandidateRound(tree, d, old_test_path) ==
    IF ~os_path_exists(tree, d)
    THEN [test_path |-> old_test_path, opens |-> FALSE]
    ELSE IF os_path_exists_file(tree, d, UploadedImage)
    THEN [test_path |-> Join(d, UploadedImage), opens |-> TRUE]
    ELSE LET contents == os_listdir(tree, d)
             n == ScanContents(contents, 1)
         IN  IF n = 0
             THEN [test_path |-> Join(d, UploadedImage), opens |-> FALSE]
             ELSE [test_path |-> Join(d, contents[n]), opens |-> TRUE]

\* the job going on without looking at its image
SubmitSingle_NoGuard ==
    /\ pc = "idle"
    /\ job = "none"
    /\ \E img \in {None, Img}, g \in BOOLEAN, s \in BOOLEAN, h \in BOOLEAN :
         /\ image' = img
         /\ opts' = [use_gpu |-> g, with_scratch |-> s, high_resolution |-> h]
    /\ pc' = "s_start"
    /\ job' = "single"
    /\ UNCHANGED <<env, files, rpArgs, cmd, fs, inputDir, callNo, engineStarts,
                   nWrites, success, probes, k, test_path, restored_path, i,
                   results>>
    /\ UNCHANGED <<proc, printed, looked, walk, first_path, mg, dl, tmp, vis>>

\* :234-235 and the entry of the job
SubmitSingle ==
    /\ pc = "idle"
    /\ job = "none"
    /\ \E img \in {None, Img}, g \in BOOLEAN, s \in BOOLEAN, h \in BOOLEAN :
         /\ image' = img
         /\ opts' = [use_gpu |-> g, with_scratch |-> s, high_resolution |-> h]
         /\ IF img = None
               THEN /\ results' = NoResult
                    /\ pc' = "done"
               ELSE /\ pc' = "s_start"
                    /\ UNCHANGED results
    /\ job' = "single"
    /\ UNCHANGED <<env, files, rpArgs, cmd, fs, inputDir, callNo, engineStarts,
                   nWrites, success, probes, k, test_path, restored_path, i>>
    /\ UNCHANGED <<proc, printed, looked, walk, first_path, mg, dl, tmp, vis>>

\* :238-265, the directories are made, the image saved, restore_photos called
S_Start ==
    /\ pc = "s_start"
    /\ fs' = [fs EXCEPT ![Resolve(PyCwd, TempOutput)] = MkDir(@, ".")]
    /\ inputDir' = {UploadedImage}
    /\ rpArgs' = [input_folder |-> TempInput,
                  output_folder |-> TempOutput,
                  gpu_id |-> GpuId(opts.use_gpu),
                  with_scratch |-> opts.with_scratch,
                  hr |-> opts.high_resolution]
    /\ callNo' = callNo + 1
    /\ pc' = "rp_check"
    /\ UNCHANGED <<job, env, opts, image, files, cmd, engineStarts, nWrites,
                   success, probes, k, test_path, restored_path, i, results>>
    /\ UNCHANGED <<proc, printed, looked, walk, first_path, mg, dl, tmp, vis>>

\* :267-272, the output directory is listed for the log, then success tested
S_Diag ==
    /\ pc = "s_diag"
    /\ probes' = probes \cup {"."}
    /\ IF ~success
          THEN /\ results' = NoResult
               /\ pc' = "done"
          ELSE /\ pc' = "s_stages"
               /\ UNCHANGED results
    /\ UNCHANGED <<job, env, opts, image, files, rpArgs, cmd, fs, inputDir,
                   callNo, engineStarts, nWrites, success, k, test_path,
                   restored_path, i>>
    /\ UNCHANGED <<proc, printed, looked, walk, first_path, mg, dl, tmp, vis>>

\* :274-288, the stage directories are listed for the log; :300-301
S_Stages ==
    /\ pc = "s_stages"
    /\ probes' = probes \cup stage_dirs
    /\ restored_path' = None
    /\ k' = 1
    /\ pc' = "s_resolve"
    /\ UNCHANGED <<job, env, opts, image, files, rpArgs, cmd, fs, inputDir,
                   callNo, engineStarts, nWrites, success, test_path, i,
                   results>>
    /\ UNCHANGED <<proc, printed, looked, walk, first_path, mg, dl, tmp, vis>>

\* the loop passing over every directory the job has read before
S_Candidate_Cached ==
    /\ pc = "s_resolve"
    /\ \E openOk \in BOOLEAN :
         LET d == possible_output_dirs[k]
             round == IF d \in probes
                      THEN [test_path |-> test_path, opens |-> FALSE]
                      ELSE CandidateRound(fs[CallerLoc], d, test_path)
         IN  /\ probes' = probes \cup {d}
             /\ test_path' = round.test_path
             /\ IF round.opens
                   THEN IF openOk
                           THEN /\ restored_path' = round.test_path
                                /\ pc' = "s_finish"
                                /\ UNCHANGED k
                           ELSE /\ pc' = "raised"
                                /\ UNCHANGED <<restored_path, k>>
                   ELSE /\ IF k = Len(possible_output_dirs)
                              THEN pc' = "s_finish" /\ UNCHANGED k
                              ELSE pc' = "s_resolve" /\ k' = k + 1
                        /\ UNCHANGED restored_path
    /\ UNCHANGED <<job, env, opts, image, files, rpArgs, cmd, fs, inputDir,
                   callNo, engineStarts, nWrites, success, i, results>>
    /\ UNCHANGED <<proc, printed, looked, walk, first_path, mg, dl, tmp, vis>>

\* :302-326, one round of the loop; Image.open may raise
S_Candidate ==
    /\ pc = "s_resolve"
    /\ \E openOk \in BOOLEAN :
         LET d == possible_output_dirs[k]
             round == CandidateRound(fs[CallerLoc], d, test_path)
         IN  /\ probes' = probes \cup {d}
             /\ test_path' = round.test_path
             /\ IF round.opens
                   THEN IF openOk
                           THEN /\ restored_path' = round.test_path
                                /\ pc' = "s_finish"
                                /\ UNCHANGED k
                           ELSE /\ pc' = "raised"
                                /\ UNCHANGED <<restored_path, k>>
                   ELSE /\ IF k = Len(possible_output_dirs)
                              THEN pc' = "s_finish" /\ UNCHANGED k
                              ELSE pc' = "s_resolve" /\ k' = k + 1
                        /\ UNCHANGED restored_path
    /\ UNCHANGED <<job, env, opts, image, files, rpArgs, cmd, fs, inputDir,
                   callNo, engineStarts, nWrites, success, i, results>>
    /\ UNCHANGED <<proc, printed, looked, walk, first_path, mg, dl, tmp, vis>>

\* :300-302 run once more on the output directory as it is: the result of
\* the first walk is kept aside and the loop starts again
S_Again ==
    /\ pc = "s_finish"
    /\ walk = 1
    /\ first_path' = restored_path
    /\ walk' = 2
    /\ restored_path' = None
    /\ k' = 1
    /\ pc' = "s_resolve"
    /\ UNCHANGED <<job, env, opts, image, files, rpArgs, cmd, fs, inputDir,
                   callNo, engineStarts, nWrites, success, probes, test_path,
                   i, results>>
    /\ UNCHANGED <<proc, printed, looked, mg, dl, tmp, vis>>

\* :328-354
S_Finish ==
    /\ pc = "s_finish"
    /\ results' = IF restored_path # None
                     THEN Triple(image, Opened(restored_path),
                                 Join("downloads", "restored_photo"))
                     ELSE NoResult
    /\ pc' = "done"
    /\ UNCHANGED <<job, env, opts, image, files, rpArgs, cmd, fs, inputDir,
                   callNo, engineStarts, nWrites, success, probes, k,
                   test_path, restored_path, i>>
    /\ UNCHANGED <<proc, printed, looked, walk, first_path, mg, dl, tmp, vis>>

(***************************************************************************)
(* process_multiple_images, gradio_app.py:356-426                          *)
(***************************************************************************)
\* the lists a user can submit: each entry an uploaded file or None
FileLists ==
    UNION {[1..n -> Uploads \cup {None}] : n \in 0..MaxBatch}

\* the staging numbering only the files that are there
StageInputs_Compact(fl) ==
    LET there == {q \in 1..Len(fl) : fl[q] # None}
    IN  {StagedName(Cardinality({q \in there : q < p}), Suffix(fl[p])) :
            p \in there}

\* :383-388, the names the loop copies the files to (position p is index p-1)
StageInputs(fl) ==
    {StagedName(p - 1, Suffix(fl[p])) : p \in {q \in 1..Len(fl) : fl[q] # None}}

\* :405
FailureResults(fl) == [p \in 1..Len(fl) |-> NoResult]

\* make_grid(original_image, restored_image)
Grid(original, restored) == [grid |-> <<original, restored>>]

\* :369-370 and the entry of the job
SubmitBatch ==
    /\ pc = "idle"
    /\ job = "none"
    /\ \E fl \in FileLists, g \in BOOLEAN, s \in BOOLEAN, h \in BOOLEAN :
         /\ files' = fl
         /\ opts' = [use_gpu |-> g, with_scratch |-> s, high_resolution |-> h]
         /\ pc' = IF fl = <<>> THEN "done" ELSE "b_start"
    /\ results' = <<>>
    /\ job' = "batch"
    /\ UNCHANGED <<env, image, rpArgs, cmd, fs, inputDir, callNo, engineStarts,
                   nWrites, success, probes, k, test_path, restored_path, i>>
    /\ UNCHANGED <<proc, printed, looked, walk, first_path, mg, dl, tmp, vis>>

\* the batch calling restore_photos without having copied its files
B_Start_NoStage ==
    /\ pc = "b_start"
    /\ results' = <<>>
    /\ fs' = [fs EXCEPT ![Resolve(PyCwd, TempOutput)] = MkDir(@, ".")]
    /\ inputDir' = {}
    /\ rpArgs' = [input_folder |-> TempInput,
                  output_folder |-> TempOutput,
                  gpu_id |-> GpuId(opts.use_gpu),
                  with_scratch |-> opts.with_scratch,
                  hr |-> opts.high_resolution]
    /\ callNo' = callNo + 1
    /\ pc' = "rp_check"
    /\ UNCHANGED <<job, env, opts, image, files, cmd, engineStarts, nWrites,
                   success, probes, k, test_path, restored_path, i>>
    /\ UNCHANGED <<proc, printed, looked, walk, first_path, mg, dl, tmp, vis>>

\* :372-402, the directories are made, the files copied, restore_photos called
B_Start ==
    /\ pc = "b_start"
    /\ results' = <<>>
    /\ fs' = [fs EXCEPT ![Resolve(PyCwd, TempOutput)] = MkDir(@, ".")]
    /\ inputDir' = StageInputs(files)
    /\ rpArgs' = [input_folder |-> TempInput,
                  output_folder |-> TempOutput,
                  gpu_id |-> GpuId(opts.use_gpu),
                  with_scratch |-> opts.with_scratch,
                  hr |-> opts.high_resolution]
    /\ callNo' = callNo + 1
    /\ pc' = "rp_check"
    /\ UNCHANGED <<job, env, opts, image, files, cmd, engineStarts, nWrites,
                   success, probes, k, test_path, restored_path, i>>
    /\ UNCHANGED <<proc, printed, looked, walk, first_path, mg, dl, tmp, vis>>

\* the batch going on to its results whatever restore_photos returned
B_Check_NoShortCircuit ==
    /\ pc = "b_check"
    /\ pc' = "b_final"
    /\ UNCHANGED <<job, env, opts, image, files, rpArgs, cmd, fs, inputDir,
                   callNo, engineStarts, nWrites, success, probes, k,
                   test_path, restored_path, i, results>>
    /\ UNCHANGED <<proc, printed, looked, walk, first_path, mg, dl, tmp, vis>>

\* :404-405
B_Check ==
    /\ pc = "b_check"
    /\ IF ~success
          THEN /\ results' = FailureResults(files)
               /\ pc' = "done"
          ELSE /\ pc' = "b_final"
               /\ UNCHANGED results
    /\ UNCHANGED <<job, env, opts, image, files, rpArgs, cmd, fs, inputDir,
                   callNo, engineStarts, nWrites, success, probes, k,
                   test_path, restored_path, i>>
    /\ UNCHANGED <<proc, printed, looked, walk, first_path, mg, dl, tmp, vis>>

\* :408-409
B_Final ==
    /\ pc = "b_final"
    /\ probes' = probes \cup {"final_output"}
    /\ IF os_path_exists(fs[CallerLoc], "final_output")
          THEN pc' = "b_item"
          ELSE pc' = "b_return"
    /\ i' = 0
    /\ UNCHANGED <<job, env, opts, image, files, rpArgs, cmd, fs, inputDir,
                   callNo, engineStarts, nWrites, success, k, test_path,
                   restored_path, results>>
    /\ UNCHANGED <<proc, printed, looked, walk, first_path, mg, dl, tmp, vis>>

\* :411-424, the body of the loop for one file; Image.open and make_grid
\* may raise
ItemResult(tree, file_path, n) ==
    LET restored_name == StagedName(n, Suffix(file_path))
    IN  IF os_path_exists_file(tree, "final_output", restored_name)
        THEN Triple(file_path,
                    Opened(Join("final_output", restored_name)),
                    Grid(file_path, Join("final_output", restored_name)))
        ELSE Triple(file_path, None, None)

\* :410-424, one round of the loop
B_Item ==
    /\ pc = "b_item"
    /\ i < Len(files)
    /\ \E originalOk \in BOOLEAN, restoredOk \in BOOLEAN, gridOk \in BOOLEAN :
         LET file_path == files[i + 1]
             item == IF file_path = None THEN NoResult
                     ELSE ItemResult(fs[CallerLoc], file_path, i)
             raises == /\ file_path # None
                       /\ \/ ~originalOk
                          \/ item[2] # None /\ (~restoredOk \/ ~gridOk)
         IN  /\ IF raises
                   THEN /\ pc' = "raised"
                        /\ UNCHANGED <<results, i>>
                   ELSE /\ results' = Append(results, item)
                        /\ i' = i + 1
                        /\ pc' = IF i + 1 = Len(files) THEN "b_return"
                                  ELSE "b_item"
             /\ looked' = IF file_path = None THEN Append(looked, None)
                          ELSE IF ~originalOk THEN looked
                          ELSE Append(looked, StagedName(i, Suffix(file_path)))
    /\ probes' = probes \cup (IF files[i + 1] = None THEN {} ELSE {"final_output"})
    /\ UNCHANGED <<job, env, opts, image, files, rpArgs, cmd, fs, inputDir,
                   callNo, engineStarts, nWrites, success, k, test_path,
                   restored_path>>
    /\ UNCHANGED <<proc, printed, walk, first_path, mg, dl, tmp, vis>>

\* :426
B_Return ==
    /\ pc = "b_return"
    /\ pc' = "done"
    /\ UNCHANGED <<job, env, opts, image, files, rpArgs, cmd, fs, inputDir,
                   callNo, engineStarts, nWrites, success, probes, k,
                   test_path, restored_path, i, results>>
    /\ UNCHANGED <<proc, printed, looked, walk, first_path, mg, dl, tmp, vis>>

(***************************************************************************)
(* The command-line callers: main() of photo_restoration_runner.py and     *)
(* process_custom_photos call restore_photos with the folders they are     *)
(* given, again and again on the same output folder.                       *)
(***************************************************************************)
CliPhoto == FileName(<<"photo">>, ".jpg")

\* photo_restoration_runner.py:200, :212 and :162
CliCall ==
    /\ pc = "idle"
    /\ callNo < MaxCalls
    /\ \E out \in CliOutputs, ws \in BOOLEAN :
         rpArgs' = [input_folder |-> CliInput,
                    output_folder |-> out,
                    gpu_id |-> -1,
                    with_scratch |-> ws,
                    hr |-> FALSE]
    /\ job' = "cli"
    /\ inputDir' = {CliPhoto}
    /\ callNo' = callNo + 1
    /\ engineStarts' = 0
    /\ pc' = "rp_check"
    /\ UNCHANGED <<env, opts, image, files, cmd, fs, nWrites, success, probes,
                   k, test_path, restored_path, i, results>>
    /\ UNCHANGED <<proc, printed, looked, walk, first_path, mg, dl, tmp, vis>>

\* run_restoration.py:21-49 and photo_restoration_runner.py:155-162: the
\* folders are typed by the user, both are created, restore_photos is called
CustomCall ==
    /\ pc = "idle"
    /\ callNo < MaxCalls
    /\ \E inp \in TypedInputs, out \in CliOutputs, ws \in BOOLEAN :
         /\ rpArgs' = [input_folder |-> inp,
                       output_folder |-> out,
                       gpu_id |-> -1,
                       with_scratch |-> ws,
                       hr |-> FALSE]
         /\ fs' = [fs EXCEPT ![Resolve(PyCwd, out)] = MkDir(@, ".")]
    /\ job' = "cli"
    /\ inputDir' = {CliPhoto}
    /\ callNo' = callNo + 1
    /\ engineStarts' = 0
    /\ pc' = "rp_check"
    /\ UNCHANGED <<env, opts, image, files, cmd, nWrites, success, probes,
                   k, test_path, restored_path, i, results>>
    /\ UNCHANGED <<proc, printed, looked, walk, first_path, mg, dl, tmp, vis>>

\* the caller goes on after restore_photos
CliReturn ==
    /\ pc = "cli_ret"
    /\ pc' = "idle"
    /\ UNCHANGED <<job, env, opts, image, files, rpArgs, cmd, fs, inputDir,
                   callNo, engineStarts, nWrites, success, probes, k,
                   test_path, restored_path, i, results>>
    /\ UNCHANGED <<proc, printed, looked, walk, first_path, mg, dl, tmp, vis>>

\* between two calls the installation is removed or set up again
EnvChange ==
    /\ pc = "idle"
    /\ env' \in EnvStates \ {env}
    /\ UNCHANGED <<job, pc, opts, image, files, rpArgs, cmd, fs, inputDir,
                   callNo, engineStarts, nWrites, success, probes, k,
                   test_path, restored_path, i, results>>
    /\ UNCHANGED <<proc, printed, looked, walk, first_path, mg, dl, tmp, vis>>

(***************************************************************************)
(* The download files of the single-image jobs, gradio_app.py:328-346.     *)
(***************************************************************************)
appVars == <<job, pc, env, opts, image, files, rpArgs, cmd, fs, inputDir,
             callNo, engineStarts, nWrites, success, probes, k, test_path,
             restored_path, i, results, proc, printed, looked, walk,
             first_path, mg>>

\* :328, job j has found its restored image
D_Found(j) ==
    /\ dl.frame[j].pc = "idle"
    /\ dl' = [dl EXCEPT !.frame[j].pc = "stamp"]
    /\ UNCHANGED <<appVars, tmp, vis>>

\* :337, the job reads the clock
D_Stamp(j) ==
    /\ dl.frame[j].pc = "stamp"
    /\ dl' = [dl EXCEPT !.frame[j].timestamp = strftime(dl.now),
                        !.frame[j].pc = "save"]
    /\ UNCHANGED <<appVars, tmp, vis>>

\* :338-346, the image is saved under the name and the path returned
D_Save(j) ==
    /\ dl.frame[j].pc = "save"
    /\ LET path == download_path(dl.frame[j].timestamp)
       IN  dl' = [dl EXCEPT !.saved[path] = j,
                            !.frame[j].download_path = path,
                            !.frame[j].pc = "returned"]
    /\ UNCHANGED <<appVars, tmp, vis>>

\* time passes
D_Tick ==
    /\ \/ ~dl.now.late /\ dl' = [dl EXCEPT !.now.late = TRUE]
       \/ /\ dl.now.late
          /\ dl.now.sec < MaxSec
          /\ dl' = [dl EXCEPT !.now = [sec |-> dl.now.sec + 1, late |-> FALSE]]
    /\ UNCHANGED <<appVars, tmp, vis>>

NextDownload ==
    \/ \E j \in UiJobs : D_Found(j)
    \/ \E j \in UiJobs : D_Stamp(j)
    \/ \E j \in UiJobs : D_Save(j)
    \/ D_Tick

SpecDownload == Init /\ [][NextDownload]_vars

(***************************************************************************)
(* Concurrent UI jobs and their temporary directories.                     *)
(***************************************************************************)
\* the job's temporary directory as it is now
OwnTemp(j) == tmp.tree[tmp.frame[j].temp_dir]

\* a job entering a directory of any name, as with a fixed path
T_Enter_Shared(j) ==
    /\ tmp.frame[j].pc = "idle"
    /\ \E d \in TempNames :
         tmp' = [tmp EXCEPT !.tree[d] = [@ EXCEPT !.exists = TRUE],
                            !.frame[j].temp_dir = d,
                            !.frame[j].pc = "made"]
    /\ UNCHANGED <<appVars, dl, vis>>

\* :237-243 and :374-380: TemporaryDirectory() makes a directory that was
\* not there, then input and output are made in it
T_Enter(j) ==
    /\ tmp.frame[j].pc = "idle"
    /\ \E d \in TempNames :
         /\ ~tmp.tree[d].exists
         /\ tmp' = [tmp EXCEPT !.tree[d] = NewTempDir,
                               !.frame[j].temp_dir = d,
                               !.frame[j].pc = "made"]
    /\ UNCHANGED <<appVars, dl, vis>>

\* :245-249 and :383-388, the inputs are staged
T_Stage(j) ==
    /\ tmp.frame[j].pc = "made"
    /\ tmp' = [tmp EXCEPT !.tree[tmp.frame[j].temp_dir].input =
                              @ \cup {TempFile(j, "in")},
                          !.frame[j].staged = TRUE,
                          !.frame[j].pc = "prepare"]
    /\ UNCHANGED <<appVars, dl, vis>>

\* photo_restoration_runner.py:79-81 on the job's output_dir
T_Prepare(j) ==
    /\ tmp.frame[j].pc = "prepare"
    /\ tmp' = [tmp EXCEPT !.tree[tmp.frame[j].temp_dir].output = {},
                          !.frame[j].pc = "engine"]
    /\ UNCHANGED <<appVars, dl, vis>>

\* the engine writes a file below the job's output_dir
T_EngineWrite(j, name) ==
    /\ tmp.frame[j].pc = "engine"
    /\ name \notin tmp.frame[j].outputs
    /\ tmp' = [tmp EXCEPT !.tree[tmp.frame[j].temp_dir].output =
                              {f \in @ : f.name # name}
                                  \cup {TempFile(j, name)},
                          !.frame[j].outputs = @ \cup {name}]
    /\ UNCHANGED <<appVars, dl, vis>>

\* the engine exits and the job reads its results
T_EngineExit(j) ==
    /\ tmp.frame[j].pc = "engine"
    /\ tmp' = [tmp EXCEPT !.frame[j].pc = "resolve"]
    /\ UNCHANGED <<appVars, dl, vis>>

\* the with block is left: the temporary directory is removed
T_Leave(j) ==
    /\ tmp.frame[j].pc = "resolve"
    /\ tmp' = [tmp EXCEPT !.tree[tmp.frame[j].temp_dir] = NoTempDir,
                          !.frame[j] = NoJob]
    /\ UNCHANGED <<appVars, dl, vis>>

NextTemp ==
    \/ \E j \in UiJobs : T_Enter(j)
    \/ \E j \in UiJobs : T_Stage(j)
    \/ \E j \in UiJobs : T_Prepare(j)
    \/ \E j \in UiJobs, name \in EngineNames : T_EngineWrite(j, name)
    \/ \E j \in UiJobs : T_EngineExit(j)
    \/ \E j \in UiJobs : T_Leave(j)

SpecTemp == Init /\ [][NextTemp]_vars

(***************************************************************************)
(* visualize_results(input_folder, output_folder).                         *)
(***************************************************************************)
\* list.sort() through Path.__lt__
RECURSIVE Insert(_, _)
Insert(f, sorted) ==
    IF sorted = <<>> THEN <<f>>
    ELSE IF Before(f, Head(sorted)) THEN <<f>> \o sorted
    ELSE <<Head(sorted)>> \o Insert(f, Tail(sorted))

RECURSIVE sort(_)
sort(s) == IF s = <<>> THEN <<>> ELSE Insert(Head(s), sort(Tail(s)))

\* :117-118
ImageFiles(input) ==
    SelectSeq(input,
              LAMBDA f : is_file(f) /\ Lower(Suffix(f)) \in image_extensions)

\* :135, f"comparison_{filename.name}"
comparison_name(f) == FileName(<<"comparison_" \o f.stem[1]>>, f.ext)

\* what a round of the loop can come to: the statement that raises, or none
Outcomes == {"ok", "open_original", "open_restore", "make_grid", "save"}

\* final_output with its files
FinalOutput(present) == [files |-> present]

\* :108-121, the call up to the loop
V_Call ==
    /\ vis.pc = "idle"
    /\ \E input \in Folders :
         \E final \in {None} \cup
                 {FinalOutput(S) :
                     S \in SUBSET {input[p] : p \in 1..Len(input)}} :
            LET filenames == sort(ImageFiles(input))
            IN  vis' = IF final = None
                          THEN [vis EXCEPT !.pc = "returned",
                                           !.input = input]
                          ELSE [vis EXCEPT !.pc = IF filenames = <<>>
                                                     THEN "returned"
                                                     ELSE "loop",
                                           !.input = input,
                                           !.final_output = final,
                                           !.filenames = filenames,
                                           !.n = 1]
    /\ UNCHANGED <<appVars, dl, tmp>>

\* the loop ending at the first file that fails
V_File_Stops ==
    /\ vis.pc = "loop"
    /\ \E outcome \in Outcomes :
         LET filename == vis.filenames[vis.n]
             there == filename \in vis.final_output.files
             last == vis.n = Len(vis.filenames)
         IN  /\ outcome \in {"ok", "make_grid", "save"} => there
             /\ vis' = IF outcome = "ok"
                          THEN [vis EXCEPT
                                  !.handled = Append(@, filename),
                                  !.written =
                                      Append(@, comparison_name(filename)),
                                  !.final_output.files =
                                      @ \cup {comparison_name(filename)},
                                  !.n = @ + 1,
                                  !.pc = IF last THEN "returned" ELSE "loop"]
                          ELSE [vis EXCEPT
                                  !.handled = Append(@, filename),
                                  !.errors =
                                      Append(@, [name |-> filename,
                                                 at |-> outcome]),
                                  !.n = @ + 1,
                                  !.pc = "returned"]
    /\ UNCHANGED <<appVars, dl, tmp>>

\* :123-140, one round of the loop: the try block and its except
V_File ==
    /\ vis.pc = "loop"
    /\ \E outcome \in Outcomes :
         LET filename == vis.filenames[vis.n]
             there == filename \in vis.final_output.files
             last == vis.n = Len(vis.filenames)
         IN  /\ outcome \in {"ok", "make_grid", "save"} => there
             /\ vis' = IF outcome = "ok"
                          THEN [vis EXCEPT
                                  !.handled = Append(@, filename),
                                  !.written =
                                      Append(@, comparison_name(filename)),
                                  !.final_output.files =
                                      @ \cup {comparison_name(filename)},
                                  !.n = @ + 1,
                                  !.pc = IF last THEN "returned" ELSE "loop"]
                          ELSE [vis EXCEPT
                                  !.handled = Append(@, filename),
                                  !.errors =
                                      Append(@, [name |-> filename,
                                                 at |-> outcome]),
                                  !.n = @ + 1,
                                  !.pc = IF last THEN "returned" ELSE "loop"]
    /\ UNCHANGED <<appVars, dl, tmp>>

NextVisual ==
    \/ V_Call
    \/ V_File

SpecVisual == Init /\ [][NextVisual]_vars

(***************************************************************************)
(* Specifications.                                                         *)
(***************************************************************************)
RestorePhotos ==
    \/ RP_Check
    \/ RP_Prepare
    \/ RP_Run
    \/ \E d \in EngineDirs : EngineMkdir(d)
    \/ \E d \in EngineDirs, name \in EnginePool : EngineWrite(d, name)
    \/ \E returncode \in {0, 1} : EngineExit(returncode)
    \/ RP_Return

\* one job of the web UI
Next ==
    \/ SubmitSingle
    \/ S_Start
    \/ S_Diag
    \/ S_Stages
    \/ S_Candidate
    \/ S_Finish
    \/ SubmitBatch
    \/ B_Start
    \/ B_Check
    \/ B_Final
    \/ B_Item
    \/ B_Return
    \/ RestorePhotos

Spec == Init /\ [][Next]_vars

\* the statements of the job's own thread: every step but the engine's,
\* an external process that subprocess.run waits for without a timeout
JobSteps ==
    \/ SubmitSingle
    \/ S_Start
    \/ S_Diag
    \/ S_Stages
    \/ S_Candidate
    \/ S_Finish
    \/ SubmitBatch
    \/ B_Start
    \/ B_Check
    \/ B_Final
    \/ B_Item
    \/ B_Return
    \/ RP_Check
    \/ RP_Prepare
    \/ RP_Run
    \/ RP_Return

\* one job of the web UI whose thread keeps running; nothing is assumed
\* of the engine
SpecLive == Init /\ [][Next]_vars /\ WF_vars(JobSteps)

\* a command-line session
NextRunner ==
    \/ CliCall
    \/ CliReturn
    \/ EnvChange
    \/ RestorePhotos

SpecRunner == Init /\ [][NextRunner]_vars

\* a session of run_restoration.py
NextCustom ==
    \/ CustomCall
    \/ CliReturn
    \/ RestorePhotos

SpecCustom == Init /\ [][NextCustom]_vars

\* one single-image job whose resolver is run twice on the same directory
NextTwice ==
    \/ SubmitSingle
    \/ S_Start
    \/ S_Diag
    \/ S_Stages
    \/ S_Candidate
    \/ S_Again
    \/ S_Finish
    \/ RestorePhotos

SpecTwice == Init /\ [][NextTwice]_vars

(***************************************************************************)
(* make_grid, photo_restoration_runner.py:28-51.  An image is its size     *)
(* (width, height), the number of its bands, the width of its samples and  *)
(* the value of its samples: the images of the model are of one colour     *)
(* all over, which resampling and the conversion to grey leave as it is.   *)
(***************************************************************************)
\* :45
W_base == 600

\* the largest value a uint8 sample holds, :43
MaxSample == 255

\* the widths of the originals: narrow ones, the ones about W_base / 2, and
\* one that makes the double-precision ratio inexact
Widths == {1, 2, 55, 299, 300, 301}

PilImage(w, h, bands, bits, v) ==
    [size |-> <<w, h>>, bands |-> bands, bits |-> bits, v |-> v]

\* bands and sample width of the originals: L, LA, RGB, RGBA and I;16
Modes == {<<1, 8>>, <<2, 8>>, <<3, 8>>, <<4, 8>>, <<1, 16>>}

Samples(bits) ==
    IF bits = 8 THEN {0, MaxSample} ELSE {MaxSample + 1, 2 * MaxSample}

\* what Image.open can hand over as I1
Originals ==
    UNION {{PilImage(w, h, m[1], m[2], v) :
                w \in Widths, h \in 1..MaxH, v \in Samples(m[2])} : m \in Modes}

\* what Image.open can hand over as I2: the engine's 8-bit output, of a size
\* of its own
Restoreds ==
    {PilImage(sz[1], sz[2], b, 8, MaxSample) :
        sz \in {<<1, 1>>, <<3, 2>>}, b \in 1..4}

\* np.asarray(image): shape (height, width) or (height, width, bands)
np_asarray(img) ==
    [shape |-> IF img.bands = 1 THEN <<img.size[2], img.size[1]>>
               ELSE <<img.size[2], img.size[1], img.bands>>,
     v |-> img.v]

\* Image.resize((width, height))
Image_resize(img, size) == [img EXCEPT !.size = size]

\* Image.convert('L')
Image_convert_L(img) == [img EXCEPT !.bands = 1]

\* a[:, :, :3]
FirstThree(a) == [a EXCEPT !.shape[3] = IF @ > 3 THEN 3 ELSE @]

\* an array of shape src can be assigned to a slice of shape dst
Fits(src, dst) ==
    /\ Len(src) = Len(dst)
    /\ \A d \in 1..Len(dst) : src[d] = dst[d] \/ src[d] = 1

\* the columns [from, to) of the canvas, filled from array a
Block(from, to, of, a) ==
    [cols |-> <<from, to>>, of |-> of,
     size |-> <<a.shape[2], a.shape[1]>>, v |-> a.v]

Raised(e) == [raised |-> e]

\* the composition with the arguments of I2.resize the other way round
make_grid_combine_Swapped(I1img, I2img) ==
    LET I1 == np_asarray(I1img)
        H == I1.shape[1]
        W == I1.shape[2]
    IN  IF Len(I1.shape) >= 3
        THEN LET I2 == np_asarray(Image_resize(I2img, <<H, W>>))
             IN  IF ~Fits(FirstThree(I1).shape, <<H, W, 3>>)
                 THEN Raised("ValueError")
                 ELSE IF Len(I2.shape) < 3 THEN Raised("IndexError")
                 ELSE IF ~Fits(FirstThree(I2).shape, <<H, W, 3>>)
                 THEN Raised("ValueError")
                 ELSE [shape |-> <<H, W * 2, 3>>,
                       blocks |-> <<Block(0, W, "I1", FirstThree(I1)),
                                    Block(W, W * 2, "I2", FirstThree(I2))>>]
        ELSE LET I2 == np_asarray(Image_convert_L(Image_resize(I2img, <<H, W>>)))
             IN  IF ~Fits(I2.shape, <<H, W>>) THEN Raised("ValueError")
                 ELSE [shape |-> <<H, W * 2>>,
                       blocks |-> <<Block(0, W, "I1", I1),
                                    Block(W, W * 2, "I2", I2)>>]

\* :30-42, the canvas of zeros and the two slice assignments
make_grid_combine(I1img, I2img) ==
    LET I1 == np_asarray(I1img)
        H == I1.shape[1]
        W == I1.shape[2]
    IN  IF Len(I1.shape) >= 3
        THEN LET I2 == np_asarray(Image_resize(I2img, <<W, H>>))
             IN  IF ~Fits(FirstThree(I1).shape, <<H, W, 3>>)
                 THEN Raised("ValueError")
                 ELSE IF Len(I2.shape) < 3 THEN Raised("IndexError")
                 ELSE IF ~Fits(FirstThree(I2).shape, <<H, W, 3>>)
                 THEN Raised("ValueError")
                 ELSE [shape |-> <<H, W * 2, 3>>,
                       blocks |-> <<Block(0, W, "I1", FirstThree(I1)),
                                    Block(W, W * 2, "I2", FirstThree(I2))>>]
        ELSE LET I2 == np_asarray(Image_convert_L(Image_resize(I2img, <<W, H>>)))
             IN  IF ~Fits(I2.shape, <<H, W>>) THEN Raised("ValueError")
                 ELSE [shape |-> <<H, W * 2>>,
                       blocks |-> <<Block(0, W, "I1", I1),
                                    Block(W, W * 2, "I2", I2)>>]

\* np.uint8(x) of a float64 sample, :43: a value of the range is kept; the
\* conversion of any other is undefined, builds wrap it or saturate
Uint8Outcomes(v) ==
    IF v \in 0..MaxSample THEN {v} ELSE {v % (MaxSample + 1), MaxSample}

\* PIL.Image.fromarray of the uint8 canvas, :43
Image_fromarray(a) ==
    [size |-> <<a.shape[2], a.shape[1]>>,
     bands |-> IF Len(a.shape) = 3 THEN a.shape[3] ELSE 1,
     bits |-> 8,
     blocks |-> a.blocks]

\* the (H, W) of the model for which H * (W_base / (W * 2)), computed in
\* double precision as :47-48 do, falls just below the whole number
\* 300 * H / W: 600 / 110 is rounded down and 11 or 22 times it stays below
\* 60 or 120 (no other H up to 39 does so for a width of Widths)
Binary64Short == {<<11, 55>>, <<22, 55>>}

\* the new height rounded to the nearest whole number
H_new_Rounded(H, W) == (2 * W_base * H + 2 * W) \div (4 * W)

\* :47-48, int(H * ratio) with ratio = W_base / (W * 2)
H_new(H, W) ==
    (W_base * H) \div (W * 2) - (IF <<H, W>> \in Binary64Short THEN 1 ELSE 0)

\* the size of the comparison left alone when it is narrower than W_base
NewSize_NoUpscale(H, W) ==
    IF W * 2 < W_base THEN <<W * 2, H>> ELSE <<W_base, H_new(H, W)>>

\* :49, the size handed to I_combine.resize
NewSize(H, W) == <<W_base, H_new(H, W)>>

\* the frame of a call that has just been made
Frame(at, I1, I2, resize) ==
    [NoFrame EXCEPT !.pc = at, !.I1 = I1, !.I2 = I2, !.resize = resize]

jobVars == <<job, pc, env, opts, image, files, rpArgs, cmd, fs, inputDir,
             callNo, engineStarts, nWrites, success, probes, k, test_path,
             restored_path, i, results, proc, printed, looked, walk,
             first_path, dl, tmp, vis>>

\* make_grid(I1, I2, resize) is called
MG_Call ==
    /\ mg.pc = "idle"
    /\ \E I1 \in Originals, I2 \in Restoreds, resize \in BOOLEAN :
         mg' = Frame("l30", I1, I2, resize)
    /\ UNCHANGED jobVars

\* :30-42; a slice assignment whose shapes do not fit raises
MG_Combine ==
    /\ mg.pc = "l30"
    /\ LET c == make_grid_combine(mg.I1, mg.I2)
       IN  mg' = IF "raised" \in DOMAIN c
                 THEN [mg EXCEPT !.pc = "raised", !.error = c]
                 ELSE [mg EXCEPT !.pc = "l43", !.I_combine = c]
    /\ UNCHANGED jobVars

\* :43
MG_Cast ==
    /\ mg.pc = "l43"
    /\ \E v1 \in Uint8Outcomes(mg.I_combine.blocks[1].v),
          v2 \in Uint8Outcomes(mg.I_combine.blocks[2].v) :
         mg' = [mg EXCEPT
                  !.pc = "l45",
                  !.I_combine = Image_fromarray(
                      [@ EXCEPT !.blocks[1].v = v1, !.blocks[2].v = v2])]
    /\ UNCHANGED jobVars

\* the canvas scaled to the size asked for
Scaled(img, size) ==
    [img EXCEPT
       !.size = size,
       !.blocks = [n \in 1..2 |->
                     [img.blocks[n] EXCEPT
                        !.cols = <<(n - 1) * (size[1] \div 2), n * (size[1] \div 2)>>,
                        !.size = <<size[1] \div 2, size[2]>>]]]

\* :45-51; Image.resize raises ValueError for a height below 1
MG_Resize ==
    /\ mg.pc = "l45"
    /\ LET H == mg.I1.size[2]
           W == mg.I1.size[1]
           size == NewSize(H, W)
       IN  mg' = IF ~mg.resize
                 THEN [mg EXCEPT !.pc = "returned", !.result = mg.I_combine]
                 ELSE IF size[1] < 1 \/ size[2] < 1
                 THEN [mg EXCEPT !.pc = "raised", !.size = size,
                                 !.error = Raised("ValueError")]
                 ELSE [mg EXCEPT !.pc = "returned", !.size = size,
                                 !.result = Scaled(mg.I_combine, size)]
    /\ UNCHANGED jobVars

\* one call of make_grid
NextGrid ==
    \/ MG_Call
    \/ MG_Combine
    \/ MG_Cast
    \/ MG_Resize

SpecGrid == Init /\ [][NextGrid]_vars

(***************************************************************************)
(* Properties.                                                             *)
(***************************************************************************)
UiJob == job \in {"single", "batch"}

\* the job is over: it returned or an exception left it
Ended == pc \in {"done", "raised"}

\* the output directory of the running UI job
Out == fs[Resolve(PyCwd, TempOutput)]

\* the name input p of the batch was staged under
StagedAt(p) == StagedName(p - 1, Suffix(files[p]))

\* C1: a batch run over a non-empty list of N inputs returns exactly N
\* entries, entry p standing for input p, whatever the engine did and
\* whatever layout it left (final_output missing included).
C1_BatchLength ==
    (job = "batch" /\ pc = "done" /\ Len(files) > 0) =>
        /\ Len(results) = Len(files)
        /\ \A p \in 1..Len(files) : results[p][1] \in {files[p], None}

\* every restored value the job returned is absent
AllAbsent ==
    IF job = "single"
    THEN results[2] = None
    ELSE /\ Len(results) = Len(files)
         /\ \A p \in 1..Len(results) : results[p][2] = None

\* the job returned after restore_photos returned False
FailedJob == UiJob /\ pc = "done" /\ callNo = 1 /\ ~success

\* C2 as stated: when restore_photos returns False both jobs return only
\* absent restored results and no output directory is listed or probed
\* after the failure.
C2_NoProbeAfterFailure ==
    FailedJob => AllAbsent /\ probes = {}

\* C2 as amended: when restore_photos returns False both jobs return only
\* absent restored results and the resolver never runs; the batch job reads
\* nothing of the output directory, the single-image job lists the output
\* root once (for its log) and nothing else.
C2_NoResolutionAfterFailure ==
    FailedJob =>
        /\ AllAbsent
        /\ k = 0 /\ i = 0 /\ restored_path = None
        /\ probes = IF job = "single" THEN {"."} ELSE {}

\* a batch of two whose engine wrote a result into final_output and then
\* exited with an error
C2_Witness ==
    /\ FailedJob
    /\ job = "batch"
    /\ Len(files) = 2
    /\ engineStarts = 1
    /\ Out["final_output"].entries # <<>>

\* every input of the job has its result file in the output root, and no
\* subdirectory exists
OnlyRootHoldsResults ==
    /\ \A d \in Dirs \ {"."} : ~Out[d].exists
    /\ inputDir # {}
    /\ inputDir \subseteq Names(Out["."])

\* C3: with remove_scratches and high_resolution off, an engine run that
\* succeeds and leaves the result files in the output root only still gets
\* every submitted input resolved, in the single-image job and in the batch.
C3_RootFallback ==
    (/\ UiJob /\ pc = "done" /\ callNo = 1 /\ success
     /\ ~opts.with_scratch /\ ~opts.high_resolution
     /\ OnlyRootHoldsResults) =>
        IF job = "single"
        THEN results[2] # None
        ELSE /\ Len(results) = Len(files)
             /\ \A p \in 1..Len(files) : files[p] # None => results[p][2] # None

(***************************************************************************)
(* The reference resolver of the specification (4.3), stated on a          *)
(* snapshot of the output directory.                                       *)
(***************************************************************************)
RecognizedExts == {".jpg", ".jpeg", ".png", ".bmp"}

\* the name ends, whatever its case, in a recognized image extension
RefIsImage(name) == \E e \in RecognizedExts : Lower(name.ext) = e

\* the match one candidate directory yields, None if it yields none
RefMatch(tree, d) ==
    IF ~tree[d].exists THEN None
    ELSE IF \E n \in 1..Len(tree[d].entries) : tree[d].entries[n].name = UploadedImage
    THEN Join(d, UploadedImage)
    ELSE LET images == {n \in 1..Len(tree[d].entries) :
                            RefIsImage(tree[d].entries[n].name)}
         IN  IF images = {} THEN None
             ELSE Join(d, tree[d].entries[CHOOSE n \in images :
                                              \A m \in images : n <= m].name)

\* the candidates that yield a match, by position in the ordered list
RefHits(tree, candidates) ==
    {n \in 1..Len(candidates) : RefMatch(tree, candidates[n]) # None}

\* the position of the first candidate that yields a match, 0 if none does
RefFirst(tree, candidates) ==
    LET hits == RefHits(tree, candidates)
    IN  IF hits = {} THEN 0 ELSE CHOOSE n \in hits : \A m \in hits : n <= m

RefResolve(tree, candidates) ==
    LET n == RefFirst(tree, candidates)
    IN  IF n = 0 THEN None ELSE RefMatch(tree, candidates[n])

\* process_single_image's loop over the candidates is over
Walked == job = "single" /\ pc \in {"s_finish", "raised"}

\* the path the loop settled on: the one it opened (restored_path), or the
\* one whose opening raised (test_path)
Selected == IF pc = "raised" THEN test_path ELSE restored_path

\* C4: the single-image resolver's result is the reference algorithm's:
\* absent candidates skipped, in an existing one the entry named like the
\* source file, else the first listed entry with a recognized image
\* extension; the first candidate with a match wins and the loop stops
\* there; no match in any candidate gives no result.
C4_ResolverIsReference ==
    /\ Walked =>
          /\ Selected = RefResolve(Out, possible_output_dirs)
          /\ k = IF RefFirst(Out, possible_output_dirs) = 0
                    THEN Len(possible_output_dirs)
                    ELSE RefFirst(Out, possible_output_dirs)
    /\ (job = "single" /\ pc = "done" /\ success) =>
          results[2] = IF RefResolve(Out, possible_output_dirs) = None
                          THEN None
                          ELSE Opened(RefResolve(Out, possible_output_dirs))

\* the third candidate has no file named like the source; its listing
\* starts with a .tiff file, and the .PNG file after it is the result
C4_Witness ==
    /\ job = "single" /\ pc = "s_finish"
    /\ k = 3
    /\ Len(Out[possible_output_dirs[3]].entries) = 2
    /\ Out[possible_output_dirs[3]].entries[1].name.ext = ".tiff"
    /\ restored_path = Join(possible_output_dirs[3],
                            FileName(UploadedImage.stem, ".PNG"))

\* the stage candidates: every candidate but the output root
StageCandidates == Dirs \ {"."}

\* C5 as stated: the output root comes last; whenever a stage candidate
\* holds a match, a file lying directly in the output root is not the result.
C5_RootLast ==
    (Walked /\ \E d \in StageCandidates : RefMatch(Out, d) # None) =>
        Selected.dir # "."

\* C5 as amended: the output root is the second candidate. A match in
\* final_output is the result whatever the root holds; a match in the root
\* is the result whenever final_output has none, also when restored_image,
\* stage_1_restore_output/restored_image, stage_1_restore_output/origin or
\* stage_3_face_output/each_img hold a match; these four are reached only
\* when neither final_output nor the root has a match.
C5_RootSecond ==
    Walked =>
        /\ RefMatch(Out, "final_output") # None => Selected.dir = "final_output"
        /\ (RefMatch(Out, "final_output") = None /\ RefMatch(Out, ".") # None)
              => Selected = RefMatch(Out, ".")
        /\ (Selected # None /\ Selected.dir \in StageCandidates \ {"final_output"})
              => RefMatch(Out, "final_output") = None /\ RefMatch(Out, ".") = None

\* a file of the output root is the result although a stage directory
\* after it holds a match
C5_Witness ==
    /\ job = "single" /\ pc = "s_finish"
    /\ restored_path # None
    /\ restored_path.dir = "."
    /\ \E d \in StageCandidates : RefMatch(Out, d) # None

(***************************************************************************)
(* restore_photos called again and again (SpecRunner).                     *)
(***************************************************************************)
\* where the engine of the running call resolves its --output_folder
EngineOutLoc == Resolve(EngineCwd, rpArgs.output_folder)

\* the files below loc that the engine of an earlier call wrote
StaleFiles(loc) ==
    {<<d, n>> \in Dirs \X (1..MaxWrites * MaxCalls) :
        n <= Len(fs[loc][d].entries) /\ fs[loc][d].entries[n].run < callNo}

\* the running call is past its setup check and its preparation, or returned
CallUnderWay == job = "cli" /\ pc \in {"engine", "rp_ret", "cli_ret"}

\* C6: after any sequence of restore_photos calls on one output path, calls
\* that fail their setup check or whose engine fails included, once a new
\* call is under way no file an earlier call left in the output directory
\* (as the caller or as the engine resolves it) is there.
C6_NoStaleOutput ==
    CallUnderWay =>
        StaleFiles(CallerLoc) = {} /\ StaleFiles(EngineOutLoc) = {}

\* C7: when the engine command is started, the directory the engine
\* resolves --output_folder to exists, is empty, and is the directory
\* restore_photos cleared and its callers read, for absolute and for
\* relative output_folder arguments.
C7_EngineDirReady ==
    (pc = "engine" /\ nWrites = 0) =>
        /\ EngineLoc = CallerLoc
        /\ fs[EngineLoc] = EmptyTree

(***************************************************************************)
(* One job of the web UI (Spec).                                           *)
(***************************************************************************)
\* C8: a job that reaches the engine starts the engine command exactly
\* once, whatever the size of the batch and whatever the engine's exit
\* status; restore_photos is called once per job.
C8_EngineOnce ==
    UiJob =>
        /\ callNo <= 1
        /\ engineStarts <= 1
        /\ (pc \in {"engine", "rp_ret", "s_diag", "b_check"} /\ ~SetupMissing(env))
              => engineStarts = 1
        /\ (Ended /\ callNo = 1) =>
              engineStarts = IF SetupMissing(env) THEN 0 ELSE 1

\* a batch of two, both resolved from one engine run
C8_Witness ==
    /\ job = "batch" /\ pc = "done"
    /\ Len(files) = 2
    /\ Len(results) = 2
    /\ results[1][2] # None /\ results[2][2] # None
    /\ engineStarts = 1

\* C9: in a batch whose engine run succeeded, a failure of one item (its
\* original or restored image cannot be loaded, its comparison cannot be
\* composed) never leaves the batch as an exception.
C9_NoItemException ==
    (job = "batch" /\ success) => pc # "raised"

\* the output file of input p is missing from final_output
Missing(p) ==
    files[p] # None /\ StagedAt(p) \notin Names(Out["final_output"])

\* C10: in a batch whose engine run succeeded and produced final_output,
\* an item whose output file is missing is returned with restored = None
\* while every item whose output file exists is returned resolved.
C10_MissIsolated ==
    (/\ job = "batch" /\ Ended /\ callNo = 1 /\ success
     /\ Out["final_output"].exists
     /\ \E p \in 1..Len(files) : Missing(p)) =>
        /\ pc = "done"
        /\ Len(results) = Len(files)
        /\ \A p \in 1..Len(files) :
              files[p] # None => (results[p][2] = None <=> Missing(p))

(***************************************************************************)
(* The output directory's preparation (SpecRunner).                        *)
(***************************************************************************)
\* C13: the preparation of the output directory in restore_photos is
\* idempotent: once it has run the directory exists and is empty whatever it
\* held before, and preparing a directory twice in a row leaves it empty
\* both times; what an engine wrote between two preparations is gone.
C13_PrepareIdempotent ==
    /\ pc = "rp_run" => fs[CallerLoc] = EmptyTree
    /\ \A l \in Locations :
          /\ PrepareOutput(fs[l]) = EmptyTree
          /\ PrepareOutput(PrepareOutput(fs[l])) = PrepareOutput(fs[l])

\* the second call has prepared the directory the first call's engine
\* wrote to
C13_Witness ==
    /\ job = "cli" /\ pc = "rp_run" /\ callNo = 2
    /\ cmd # None
    /\ EngineLoc = CallerLoc
    /\ nWrites >= 1
    /\ fs[CallerLoc] = EmptyTree

(***************************************************************************)
(* What run_command hands back (Spec).                                     *)
(***************************************************************************)
\* the error text a value handed to a caller carries: a boolean carries none
ErrorTextOf(v) == IF v \in BOOLEAN THEN None ELSE v.stderr

\* the engine of the running call has exited and run_command returned
EngineReturned ==
    /\ UiJob /\ engineStarts = 1 /\ proc # None
    /\ pc \in {"rp_ret", "s_diag", "b_check"}

CmdBuilt == UiJob /\ cmd # None

\* C15: the engine command always carries --input_folder, --output_folder
\* and --GPU; the --GPU value is -1 exactly when use_gpu is false and 0
\* otherwise; --with_scratch is there exactly when scratch removal is asked
\* for and --HR exactly when high resolution is.
C15_CommandFlags ==
    CmdBuilt =>
        /\ HasFlag(cmd.argv, "--input_folder")
        /\ OptionValue(cmd.argv, "--input_folder") = PathArg(TempInput)
        /\ HasFlag(cmd.argv, "--output_folder")
        /\ OptionValue(cmd.argv, "--output_folder") = PathArg(TempOutput)
        /\ HasFlag(cmd.argv, "--GPU")
        /\ OptionValue(cmd.argv, "--GPU") \in {IntArg(-1), IntArg(0)}
        /\ OptionValue(cmd.argv, "--GPU") = IntArg(-1) <=> ~opts.use_gpu
        /\ HasFlag(cmd.argv, "--with_scratch") <=> opts.with_scratch
        /\ HasFlag(cmd.argv, "--HR") <=> opts.high_resolution

\* a job on the CPU with scratch removal and without high resolution
C15_Witness ==
    /\ CmdBuilt /\ pc = "engine"
    /\ ~opts.use_gpu /\ opts.with_scratch /\ ~opts.high_resolution
    /\ Len(cmd.argv) = 9

(***************************************************************************)
(* The setup check (SpecRunner).                                           *)
(***************************************************************************)
\* the engine script or one of the checkpoint directories is absent
SetupIncomplete(e) == ~e.run_py \/ e.checkpoints # RequiredCheckpoints

\* C16: when the engine script or a required checkpoint directory
\* (Face_Enhancement/checkpoints, Global/checkpoints) is absent,
\* restore_photos fails before the engine command is started.
C16_NoEngineWithoutSetup ==
    (job = "cli" /\ pc # "idle" /\ SetupIncomplete(env)) =>
        /\ engineStarts = 0
        /\ pc \in {"rp_ret", "cli_ret"} => ~success

(***************************************************************************)
(* The resolver run twice on one directory (SpecTwice).                    *)
(***************************************************************************)
\* C17: resolution is deterministic: a second run of the resolver on the
\* same directory (same directories, same entries in the same order), for
\* the same source file name and options, settles on the path the first run
\* returned, or on none when the first returned none.
C17_SameResolution ==
    (walk = 2 /\ Walked) =>
        /\ Selected = first_path
        /\ first_path = RefResolve(Out, possible_output_dirs)

\* both walks went past final_output and the output root and found the
\* same file in a later candidate
C17_Witness ==
    /\ walk = 2 /\ job = "single" /\ pc = "s_finish"
    /\ k >= 3
    /\ restored_path # None
    /\ restored_path = first_path

(***************************************************************************)
(* The names of a batch (Spec).                                            *)
(***************************************************************************)
\* the positions of the batch that hold a file
Submitted == {p \in 1..Len(files) : files[p] # None}

\* the batch has staged its inputs
Staged == job = "batch" /\ callNo = 1

\* C18: the input at position i (counted from 0) of a batch is staged as
\* image_<i><ext>; the names of two positions never coincide, also when the
\* uploads are named alike; an entry that is None does not shift the
\* numbers after it; and the name looked up for item i after the run is
\* the name it was staged under.
C18_StagedNames ==
    Staged =>
        /\ inputDir =
              {FileName(<<"image_" \o ToString(p - 1)>>, files[p].ext) :
                  p \in Submitted}
        /\ Cardinality(inputDir) = Cardinality(Submitted)
        /\ \A p \in 1..Len(looked) :
              IF files[p] = None THEN looked[p] = None
              ELSE /\ looked[p] \in inputDir
                   /\ looked[p] =
                         FileName(<<"image_" \o ToString(p - 1)>>, files[p].ext)

\* two uploads of one name, staged apart and both found again
C18_Witness ==
    /\ job = "batch" /\ pc = "done"
    /\ Len(files) = 2 /\ files[1] # None /\ files[1] = files[2]
    /\ Cardinality(inputDir) = 2
    /\ Len(looked) = 2 /\ looked[1] # looked[2]
    /\ results[1][2] # None /\ results[2][2] # None

(***************************************************************************)
(* make_grid (SpecGrid).                                                   *)
(***************************************************************************)
\* the original's height and width
GridH == mg.I1.size[2]
GridW == mg.I1.size[1]

\* the call is over
GridEnded == mg.pc \in {"returned", "raised"}

\* the bands of the two images can be composed: a single-band original with
\* any restored image, an original of three or four bands with a restored
\* image of three or four
Composes == mg.I1.bands = 1 \/ (mg.I1.bands >= 3 /\ mg.I2.bands >= 3)

\* n / d rounded to the nearest whole number
Round(n, d) == (2 * n + d) \div (2 * d)

\* C11 as stated: for every original of height H >= 1 and width W >= 1,
\* make_grid with resize enabled returns an image of width 600 and height
\* round(H * 600 / (2 * W)).
C11_HeightRounded ==
    (GridEnded /\ mg.resize /\ Composes) =>
        /\ mg.pc = "returned"
        /\ mg.result.size = <<W_base, Round(GridH * W_base, 2 * GridW)>>

\* C11 as amended: with resize enabled make_grid asks for the size
\* (600, int(H * (600 / (2 * W)))), the double-precision product truncated
\* and not rounded: floor(300 * H / W), or one less for some H, W whose
\* 300 * H / W is whole; an image it returns has exactly that size, and it
\* returns none when that height is 0.
C11_HeightTruncated ==
    (mg.resize /\ mg.size # None) =>
        LET q == (W_base * GridH) \div (2 * GridW)
        IN  /\ mg.size[1] = W_base
            /\ mg.size[2] \in {q - 1, q}
            /\ (W_base * GridH) % (2 * GridW) # 0 => mg.size[2] = q
            /\ mg.pc = "returned" <=> mg.size[2] >= 1
            /\ mg.pc = "returned" => mg.result.size = mg.size

\* a comparison is returned whose height is below the rounded one
C11_Witness ==
    /\ mg.pc = "returned" /\ mg.resize
    /\ mg.result.size[1] = W_base
    /\ mg.result.size[2] >= 1
    /\ mg.result.size[2] < Round(GridH * W_base, 2 * GridW)

\* C12 as stated: make_grid with resize enabled never enlarges the combined
\* canvas: the returned width is at most 2 * W and the returned height at
\* most H.
C12_NeverEnlarged ==
    (mg.pc = "returned" /\ mg.resize) =>
        /\ mg.result.size[1] <= 2 * GridW
        /\ mg.result.size[2] <= GridH

\* C12 as amended: with resize enabled make_grid scales the canvas to the
\* width 600 whatever its size: the size asked for is no larger than the
\* canvas (2 * W by H) exactly when 2 * W >= 600, and a canvas narrower
\* than 600 is enlarged.
C12_ScaledToBase ==
    (mg.resize /\ mg.size # None) =>
        /\ mg.size[1] = W_base
        /\ 2 * GridW >= W_base => mg.size[1] <= 2 * GridW /\ mg.size[2] <= GridH
        /\ 2 * GridW < W_base => mg.size[1] > 2 * GridW /\ mg.size[2] >= GridH
        /\ mg.pc = "returned" => mg.result.size = mg.size

\* a canvas narrower than 600 comes back wider and higher than it was
C12_Witness ==
    /\ mg.pc = "returned" /\ mg.resize
    /\ 2 * GridW < W_base
    /\ mg.result.size[1] > 2 * GridW
    /\ mg.result.size[2] > GridH

\* the place and the size of a block, without its samples
Geometry(b) == [cols |-> b.cols, of |-> b.of, size |-> b.size]

\* C19: the original's dimensions are authoritative: for an original of
\* W x H and a restored image of any size, with resize disabled the result
\* is exactly 2 * W wide and H high, the original in the columns [0, W)
\* and the restored image, resized to W x H, in the columns [W, 2W); the
\* sizes never make the composition fail.
C19_OriginalAuthoritative ==
    (GridEnded /\ ~mg.resize) =>
        /\ Composes => mg.pc = "returned"
        /\ mg.pc = "returned" =>
              /\ mg.result.size = <<2 * GridW, GridH>>
              /\ Geometry(mg.result.blocks[1]) =
                    [cols |-> <<0, GridW>>, of |-> "I1",
                     size |-> <<GridW, GridH>>]
              /\ Geometry(mg.result.blocks[2]) =
                    [cols |-> <<GridW, 2 * GridW>>, of |-> "I2",
                     size |-> <<GridW, GridH>>]

\* an RGBA original that is not square, with an RGB restored image of
\* another size
C19_Witness ==
    /\ mg.pc = "returned" /\ ~mg.resize
    /\ mg.I1.bands = 4 /\ mg.I2.bands = 3
    /\ GridW # GridH
    /\ mg.I2.size # mg.I1.size
    /\ mg.result.size = <<2 * GridW, GridH>>

\* a value clamped to the range of a uint8 sample
Clamp(v) == IF v < 0 THEN 0 ELSE IF v > MaxSample THEN MaxSample ELSE v

\* C20: every pixel value make_grid writes to the output is the input
\* value clamped to [0, 255]: a sample above 255 becomes 255 and is never
\* wrapped modulo 256.
C20_Clamped ==
    (mg.pc \in {"l45", "returned"}) =>
        /\ mg.I_combine.blocks[1].v = Clamp(mg.I1.v)
        /\ mg.I_combine.blocks[2].v = Clamp(mg.I2.v)

\* C27: for every original of height H >= 1 and width W >= 1 the size
\* make_grid asks for when it resizes the comparison has a height of at
\* least 1: the computed H_new is never 0.
C27_HeightAtLeastOne ==
    (mg.resize /\ mg.size # None) => mg.size[2] >= 1

\* C28: make_grid returns a composed image for every combination of band
\* counts of the original (1, 2, 3 or 4) and of the restored image (1, 3 or
\* 4): an original of several bands with a single-band restored image, and
\* a two-band original, are composed without an error.
C28_EveryBandsCompose ==
    (GridEnded /\ mg.I2.bands \in {1, 3, 4} /\ mg.size = None) =>
        /\ mg.pc = "returned"
        /\ mg.error = None

(***************************************************************************)
(* A call that fails its setup check (SpecRunner).                         *)
(***************************************************************************)
\* C25: when photo_restoration/ or its run.py is missing, restore_photos
\* returns False, starts no engine command and leaves the output folder
\* and everything in it as it was: no step of such a call changes the
\* file system.
C25_SetupMissingNoEffect ==
    [][(pc \in {"rp_check", "rp_ret"} /\ SetupMissing(env)) =>
          /\ fs' = fs
          /\ engineStarts' = engineStarts /\ engineStarts = 0
          /\ cmd' = cmd
          /\ pc = "rp_check" => pc' = "rp_ret" /\ success' = FALSE
          /\ pc = "rp_ret" => ~success /\ success' = success]_vars

\* the second call of a session finds the installation gone and returns
\* False; what the first call's engine wrote is still in the output folder
C25_Witness ==
    /\ job = "cli" /\ pc = "cli_ret" /\ callNo = 2
    /\ SetupMissing(env)
    /\ ~success
    /\ engineStarts = 0
    /\ \E d \in Dirs : fs[CallerLoc][d].entries # <<>>

(***************************************************************************)
(* A job with nothing to process (Spec).                                   *)
(***************************************************************************)
\* the job was given no image, or an empty list of files
NothingToProcess ==
    \/ job = "single" /\ image = None
    \/ job = "batch" /\ files = <<>>

\* C30: a job with nothing to process has no effect: process_single_image
\* without an image returns (None, None, None), process_multiple_images
\* with an empty list returns an empty list, and in both cases no directory
\* is created or deleted and the engine is not started.
C30_NothingNoEffect ==
    NothingToProcess =>
        /\ pc = "done"
        /\ results = IF job = "single" THEN NoResult ELSE <<>>
        /\ fs = [l \in Locations |-> NoTree]
        /\ inputDir = {}
        /\ callNo = 0 /\ engineStarts = 0 /\ cmd = None
        /\ probes = {}

\* process_single_image has returned for an image of None
C30_Witness ==
    /\ job = "single" /\ image = None /\ pc = "done"
    /\ results = NoResult
    /\ engineStarts = 0

(***************************************************************************)
(* The order of a batch job's steps (Spec).                                *)
(***************************************************************************)
\* the batch loop has looked up or returned something for an item
ItemsResolved == looked # <<>> \/ \E p \in 1..Len(results) : results[p][2] # None

\* no directory and no file of the tree is missing from the tree after
NothingRemoved(before, after) ==
    \A d \in Dirs :
        before[d].exists =>
            /\ after[d].exists
            /\ Len(after[d].entries) >= Len(before[d].entries)
            /\ SubSeq(after[d].entries, 1, Len(before[d].entries)) = before[d].entries

\* what both readings of the order share: the engine is started on staged
\* inputs and a prepared directory, and items are resolved only after it
\* has returned ok, in input order
EngineThenItems ==
    job = "batch" =>
        /\ pc \in {"rp_run", "engine"} => inputDir = StageInputs(files)
        /\ pc \in {"b_start", "rp_check", "rp_prepare", "rp_run"} =>
              engineStarts = 0
        /\ (pc = "engine" /\ nWrites = 0) => Out = EmptyTree
        /\ ItemsResolved =>
              /\ engineStarts = 1
              /\ proc # None /\ proc.returncode = 0
              /\ success
              /\ pc \in {"b_item", "b_return", "done", "raised"}
        /\ success =>
              /\ Len(results) = i
              /\ \A p \in 1..Len(results) : results[p][1] = files[p]

NoClearAfterStart ==
    (job = "batch" /\ engineStarts >= 1) =>
        NothingRemoved(Out, fs'[Resolve(PyCwd, TempOutput)])

\* the inputs are staged before the output directory is cleared
StageThenPrepare ==
    (job = "batch" /\ pc \in {"rp_check", "rp_prepare"}) =>
        /\ inputDir = StageInputs(files)
        /\ Out["."].exists
        /\ engineStarts = 0

EngineExited == proc # None

\* while the engine that was started has not exited, the job stands in
\* run_command
BlockedOnEngine == (engineStarts >= 1 /\ ~EngineExited) => pc = "engine"

\* C22: a job returns to its caller if and only if the engine process
\* exits: once the engine has exited (with any status) restore_photos and
\* the job that called it eventually return a result, and while the engine
\* has not exited the job does not return.
C22_ReturnsIffEngineExits ==
    /\ []BlockedOnEngine
    /\ EngineExited ~> (pc = "done")

(***************************************************************************)
(* The input folder of restore_photos (SpecCustom).                        *)
(***************************************************************************)
\* C24: restore_photos never deletes or changes a file of the input
\* folder, whatever input_folder and output_folder it is called with, an
\* input folder equal to or nested inside the output folder included.
C24_InputUntouched ==
    (job = "cli" /\ pc # "idle") => inputDir = {CliPhoto}

(***************************************************************************)
(* The download paths (SpecDownload).                                      *)
(***************************************************************************)
\* C23: the download file name of a resolved single-image job is unique:
\* two different successful single-image jobs, run one after the other or
\* concurrently, never receive the same download path, and the file a job
\* was given is never overwritten by another job.
C23_UniqueDownload ==
    \A j \in UiJobs :
        dl.frame[j].pc = "returned" =>
            /\ dl.saved[dl.frame[j].download_path] = j
            /\ \A o \in UiJobs \ {j} :
                  dl.frame[o].download_path # dl.frame[j].download_path

(***************************************************************************)
(* Concurrent UI jobs (SpecTemp).                                          *)
(***************************************************************************)
InJob(j) == tmp.frame[j].pc # "idle"

\* C26: two UI jobs that run concurrently never share an input or output
\* directory: in every interleaving the temporary directories of the
\* running jobs differ, and every input a job has staged and every file
\* its engine has written is still in the job's directories, whatever the
\* other job has cleared.
C26_OwnDirectories ==
    \A j \in UiJobs :
        InJob(j) =>
            /\ \A o \in UiJobs \ {j} :
                  InJob(o) => tmp.frame[o].temp_dir # tmp.frame[j].temp_dir
            /\ OwnTemp(j).exists
            /\ tmp.frame[j].staged => TempFile(j, "in") \in OwnTemp(j).input
            /\ \A name \in tmp.frame[j].outputs :
                  TempFile(j, name) \in OwnTemp(j).output

\* job 2 has just cleared its output directory while job 1's engine has
\* written all its files
C26_Witness ==
    /\ tmp.frame[1].pc = "engine" /\ tmp.frame[1].outputs = EngineNames
    /\ tmp.frame[2].pc = "engine" /\ tmp.frame[2].outputs = {}
    /\ tmp.frame[2].staged

(***************************************************************************)
(* visualize_results (SpecVisual).                                         *)
(***************************************************************************)
\* the image files of the input folder
InputImages ==
    {vis.input[p] : p \in {q \in 1..Len(vis.input) :
        /\ is_file(vis.input[q])
        /\ Lower(Suffix(vis.input[q])) \in image_extensions}}

Elements(s) == {s[p] : p \in 1..Len(s)}

\* C29: visualize_results writes nothing and processes no file when
\* <output>/final_output does not exist; otherwise it handles the input
\* images in sorted name order, and a failure on one file (missing or
\* unreadable restored file, compose or save error) does not stop the
\* processing of the files after it: when it returns, every image file of
\* the input folder has been handled, and each one has either its
\* comparison written or its error printed.
C29_EveryImageInOrder ==
    /\ vis.final_output = None =>
          vis.handled = <<>> /\ vis.written = <<>> /\ vis.errors = <<>>
    /\ \A p, q \in 1..Len(vis.handled) :
          p < q => Before(vis.handled[p], vis.handled[q])
    /\ Elements(vis.handled) \subseteq InputImages
    /\ (vis.pc = "returned" /\ vis.final_output # None) =>
          /\ Elements(vis.handled) = InputImages
          /\ \A f \in InputImages :
                \/ comparison_name(f) \in Elements(vis.written)
                \/ \E e \in Elements(vis.errors) : e.name = f
          /\ Len(vis.written) + Len(vis.errors) = Len(vis.handled)

\* three images, yielded by iterdir out of order; the first fails and the
\* two after it get their comparisons
C29_Witness ==
    /\ vis.pc = "returned" /\ vis.final_output # None
    /\ Len(vis.handled) = 3
    /\ vis.input # vis.handled
    /\ Len(vis.errors) = 1 /\ vis.errors[1].name = vis.handled[1]
    /\ vis.written = <<comparison_name(vis.handled[2]),
                       comparison_name(vis.handled[3])>>

====
